---- MODULE Spec2Model ----
(***************************************************************************)
(* PERT / CPM analysis tool: the three hosts of the repository             *)
(*   "CLI"  src/ProjectCLI.py      (command prompt, one run)               *)
(*   "GUI"  src/ProjectGUI.py      (tkinter, three buttons)                *)
(*   "LPT"  src/unnamed/part_000   (tkinter "Project lpt.py", two buttons) *)
(* over the shared state: the networkx DiGraph G and the dict activities.  *)
(*                                                                         *)
(* Texts typed by the user are sequences of one-character strings, so that *)
(* str.split, str.strip and int() are computed, not assumed.               *)
(* A standard deviation (P - O) / 6 is kept as its numerator P - O, and a  *)
(* Z-score as the integer 100 * Z, because TLC has no reals.               *)
(***************************************************************************)
EXTENDS Integers, Sequences, FiniteSets, TLC

\* ---------------------------------------------------------------- bounds
\* at most MaxEdges edges are ever put in G
MaxEdges == 3

Variants == {"CLI", "GUI", "LPT"}

VARIABLES
    variant,         \* which host runs
    nodes,           \* G.nodes, in insertion order
    edges,           \* G.edges, in insertion order
    activities,      \* the dict activities: key "u-v" -> [O, M, P, E, V6]
    pc,              \* CLI: position in main(); GUI/LPT: "mainloop"
    done_enabled,    \* GUI: state of done_button
    prob_enabled,    \* GUI: state of calculate_prob_button / entry_project_duration
    critical_path,   \* CLI: the local critical_path of main()
    total_duration,  \* CLI: the local total_duration of main()
    last             \* what the last handler run did and returned: in the GUIs,
                     \* what its locals held and what the labels were set from

vars == <<variant, nodes, edges, activities, pc, done_enabled, prob_enabled,
          critical_path, total_duration, last>>

\* ------------------------------------------------------------ text, int()
Digits == {"0", "1", "2", "3", "4", "5", "6", "7", "8", "9"}

DigitVal(c) == CHOOSE d \in 0..9 : ToString(d) = c

RECURSIVE StripLeft(_)
StripLeft(t) ==
    IF t # << >> /\ Head(t) = " " THEN StripLeft(Tail(t)) ELSE t

RECURSIVE StripRight(_)
StripRight(t) ==
    IF t # << >> /\ t[Len(t)] = " " THEN StripRight(SubSeq(t, 1, Len(t) - 1)) ELSE t

\* str.strip()
Strip(t) == StripRight(StripLeft(t))

\* str.lower() on the letters the inputs use
Lower(t) == [i \in 1..Len(t) |-> IF t[i] = "D" THEN "d" ELSE t[i]]

RECURSIVE DigitsValue(_, _)
DigitsValue(t, acc) ==
    IF t = << >> THEN acc ELSE DigitsValue(Tail(t), 10 * acc + DigitVal(Head(t)))

Unsigned(t) == IF t # << >> /\ Head(t) \in {"+", "-"} THEN Tail(t) ELSE t

\* int(text) succeeds: optional blanks, optional sign, one or more digits
IsInt(text) ==
    LET t == Unsigned(Strip(text))
    IN  t # << >> /\ \A i \in 1..Len(t) : t[i] \in Digits

\* int(text) when it succeeds
IntOf(text) ==
    LET s == Strip(text)
        v == DigitsValue(Unsigned(s), 0)
    IN  IF s # << >> /\ Head(s) = "-" THEN 0 - v ELSE v

\* str.split('-'): the pieces between the dashes
RECURSIVE SplitDash(_, _)
SplitDash(t, cur) ==
    IF t = << >> THEN <<cur>>
    ELSE IF Head(t) = "-" THEN <<cur>> \o SplitDash(Tail(t), << >>)
    ELSE SplitDash(Tail(t), Append(cur, Head(t)))

\* f"{start}-{end}" for two ints
EdgeKey(u, v) == ToString(u) \o "-" \o ToString(v)

\* ------------------------------------------------------- PERT formulas
\* int(x / 6): Python's int() of a float truncates toward zero
TruncDiv6(x) == IF x >= 0 THEN x \div 6 ELSE 0 - ((0 - x) \div 6)

calculate_expected_time(o, m, p) == TruncDiv6(o + 4 * m + p)

\* (p - o) / 6, kept as six times its value
calculate_standard_deviation(o, m, p) == p - o

\* ------------------------------------------------------------ evaluation
\* The(S) is the element of a one-element set. { F(x) : x \in {e} } computes e
\* once and names its value x, where LET would compute e at every use.
The(S) == CHOOSE x \in S : TRUE

\* a loop "for x in s: acc = Op(acc, x)"
RECURSIVE FoldLeft(_, _, _)
FoldLeft(Op(_, _), acc, s) ==
    IF s = << >> THEN acc
    ELSE The({ FoldLeft(Op, a2, Tail(s)) : a2 \in {Op(acc, Head(s))} })

\* ------------------------------------------------------------ the graph
Range(s) == {s[i] : i \in 1..Len(s)}

HasEdge(es, u, v) == <<u, v>> \in Range(es)

AddNode(ns, n) == IF n \in Range(ns) THEN ns ELSE Append(ns, n)

\* nx.DiGraph.add_edge: both nodes are created when new, the edge when new
AddEdgeNodes(ns, u, v) == AddNode(AddNode(ns, u), v)

AddEdgeEdges(es, u, v) == IF HasEdge(es, u, v) THEN es ELSE Append(es, <<u, v>>)

\* G.predecessors(n), in the order the edges into n were added
Predecessors(es, n) ==
    The({ [i \in 1..Len(s) |-> s[i][1]] : s \in {SelectSeq(es, LAMBDA e : e[2] = n)} })

\* G.successors(n), in the order the edges out of n were added
Successors(es, n) ==
    The({ [i \in 1..Len(s) |-> s[i][2]] : s \in {SelectSeq(es, LAMBDA e : e[1] = n)} })

in_degree(es, n) == Cardinality({e \in Range(es) : e[2] = n})

out_degree(es, n) == Cardinality({e \in Range(es) : e[1] = n})

Reverse(s) == [i \in 1..Len(s) |-> s[Len(s) + 1 - i]]

MaxOf(S) == CHOOSE x \in S : \A y \in S : x >= y

MinOf(S) == CHOOSE x \in S : \A y \in S : x <= y

\* ---------------------------------------------- nx.topological_sort(G)
\* topological_generations: indegree_map[child] -= 1, and the child joins the
\* next generation when the count reaches 0
CountChild(st, child) ==
    [indeg |-> [st.indeg EXCEPT ![child] = @ - 1],
     zero  |-> IF st.indeg[child] = 1 THEN Append(st.zero, child) ELSE st.zero]

CountNode(es, st, node) == FoldLeft(CountChild, st, Successors(es, node))

RECURSIVE Generations(_, _, _, _)
Generations(es, gen, indeg, order) ==
    IF gen = << >>
    THEN [order |-> order, feasible |-> \A n \in DOMAIN indeg : indeg[n] = 0]
    ELSE The({ Generations(es, r.zero, r.indeg, order \o gen) :
               r \in {FoldLeft(LAMBDA st, node : CountNode(es, st, node),
                               [indeg |-> indeg, zero |-> << >>], gen)} })

\* the nodes the generator yields, and whether it ends without raising
\* NetworkXUnfeasible (it raises after the last node it can yield)
topological_sort(ns, es) ==
    The({ Generations(es, SelectSeq(ns, LAMBDA n : indeg[n] = 0), indeg, << >>) :
          indeg \in {[n \in Range(ns) |-> in_degree(es, n)]} })

\* ------------------------------- nx.all_simple_paths(G, source, target)
\* depth first, children in adjacency order; a path is a sequence of nodes
RECURSIVE SimplePathsFrom(_, _, _, _)
SimplePathsFrom(es, visited, children, target) ==
    IF children = << >> THEN << >>
    ELSE The({ (IF c \in Range(visited) THEN << >>
                ELSE IF c = target THEN <<Append(visited, c)>>
                ELSE SimplePathsFrom(es, Append(visited, c), Successors(es, c), target))
               \o SimplePathsFrom(es, visited, Tail(children), target) :
               c \in {Head(children)} })

all_simple_paths(es, source, target) ==
    IF source = target THEN << >>
    ELSE SimplePathsFrom(es, <<source>>, Successors(es, source), target)

\* the consecutive pairs of a node path
PathEdges(path) == [i \in 1..(Len(path) - 1) |-> <<path[i], path[i + 1]>>]

\* the edges of a path that have an entry in activities
RecordedEdges(acts, path) ==
    SelectSeq(PathEdges(path), LAMBDA e : EdgeKey(e[1], e[2]) \in DOMAIN acts)

\* sum(activities[f"{u}-{v}"]['E'] ...) over a sequence of recorded edges
SumE(acts, edgeSeq) ==
    FoldLeft(LAMBDA sum, e : sum + acts[EdgeKey(e[1], e[2])].E, 0, edgeSeq)

\* --------------------- find_critical_path of ProjectCLI.py and Project lpt.py
Unbound == [bound |-> FALSE, val |-> 0]

\* one pass of the forward loop. est: EST[node]; recorded: the predecessors
\* whose edge has a record; the local expected_time keeps its value from one
\* node to the next, and is unbound until the first record is met
ForwardNode(acts, st, node, preds, est, recorded) ==
    IF st.exc # "none" THEN st
    ELSE IF preds # << >> /\ recorded = << >> /\ ~st.et.bound
    THEN [st EXCEPT !.exc = "UnboundLocalError"]
    ELSE The({ [EST |-> st.EST @@ (node :> est),
                EFT |-> st.EFT @@ (node :> IF preds # << >> THEN est + et.val ELSE est),
                et  |-> et,
                exc |-> "none"] :
               et \in {IF recorded # << >>
                       THEN [bound |-> TRUE, val |-> acts[EdgeKey(recorded[1], node)].E]
                       ELSE st.et} })

ForwardStep(es, acts, st, node) ==
    IF st.exc # "none" THEN st
    ELSE The({ ForwardNode(acts, st, node, preds,
                           IF preds = << >> THEN 0
                           ELSE MaxOf({st.EFT[q] : q \in Range(preds)}),
                           SelectSeq(preds, LAMBDA q : EdgeKey(q, node) \in DOMAIN acts)) :
               preds \in {Predecessors(es, node)} })

\* the forward loop over what topological_sort yields, then its exception
ForwardPass(es, acts, topo) ==
    The({ IF st.exc = "none" /\ ~topo.feasible
          THEN [st EXCEPT !.exc = "NetworkXUnfeasible"]
          ELSE st :
          st \in {FoldLeft(LAMBDA s, node : ForwardStep(es, acts, s, node),
                           [EST |-> << >>, EFT |-> << >>, et |-> Unbound, exc |-> "none"],
                           topo.order)} })

\* LST[node] is set once per recorded incoming activity: the last one stays
LatestStart(acts, LST, node, lft, recorded) ==
    IF recorded = << >> THEN LST
    ELSE (node :> lft - acts[EdgeKey(recorded[Len(recorded)], node)].E) @@ LST

BackwardNode(es, acts, EFT, st, node, succ, preds) ==
    IF succ # << >> /\ \E s \in Range(succ) : s \notin DOMAIN st.LST
    THEN [st EXCEPT !.exc = "KeyError"]
    ELSE The({ [LFT |-> st.LFT @@ (node :> lft),
                LST |-> LatestStart(acts, st.LST, node, lft,
                          SelectSeq(preds, LAMBDA q : EdgeKey(q, node) \in DOMAIN acts)),
                exc |-> "none"] :
               lft \in {IF succ = << >> THEN EFT[node]
                        ELSE MinOf({st.LST[s] : s \in Range(succ)})} })

BackwardStep(es, acts, EFT, st, node) ==
    IF st.exc # "none" THEN st
    ELSE BackwardNode(es, acts, EFT, st, node, Successors(es, node), Predecessors(es, node))

\* the backward loop: LFT and LST
BackwardPass(es, acts, topo, EFT) ==
    FoldLeft(LAMBDA s, node : BackwardStep(es, acts, EFT, s, node),
             [LFT |-> << >>, LST |-> << >>, exc |-> "none"],
             Reverse(topo.order))

\* the loop over all_simple_paths: a path replaces the best one only when it
\* is strictly longer than max_duration, which starts at 0
BetterPath(acts, best, rec, d) ==
    IF d > best.total_duration THEN [critical_path |-> rec, total_duration |-> d]
    ELSE best

LongestPath(acts, paths) ==
    FoldLeft(LAMBDA best, path :
                 The({ BetterPath(acts, best, rec, SumE(acts, rec)) :
                       rec \in {RecordedEdges(acts, path)} }),
             [critical_path |-> << >>, total_duration |-> 0],
             paths)

Raised(e) == [exc |-> e, critical_path |-> << >>, total_duration |-> 0]

Returned(cp, td) == [exc |-> "none", critical_path |-> cp, total_duration |-> td]

PathSearch(ns, es, acts) ==
    \* min(G.nodes) of a graph without nodes
    IF ns = << >> THEN Raised("ValueError")
    ELSE The({ Returned(best.critical_path, best.total_duration) :
               best \in {LongestPath(acts,
                           all_simple_paths(es, MinOf(Range(ns)), MaxOf(Range(ns))))} })

AfterForward(ns, es, acts, topo, fw) ==
    IF fw.exc # "none" THEN Raised(fw.exc)
    ELSE The({ IF bw.exc # "none" THEN Raised(bw.exc) ELSE PathSearch(ns, es, acts) :
               bw \in {BackwardPass(es, acts, topo, fw.EFT)} })

find_critical_path_CLI(ns, es, acts) ==
    The({ The({ AfterForward(ns, es, acts, topo, fw) :
                fw \in {ForwardPass(es, acts, topo)} }) :
          topo \in {topological_sort(ns, es)} })

\* ------------------------------------ find_critical_path of ProjectGUI.py
\* nx.has_path(G, source, target)
RECURSIVE Reachable(_, _, _)
Reachable(es, seen, frontier) ==
    IF frontier = {} THEN seen
    ELSE The({ Reachable(es, seen \cup next, next) :
               next \in {{e[2] : e \in {x \in Range(es) : x[1] \in frontier}} \ seen} })

has_path(es, source, target) == target \in Reachable(es, {source}, {source})

\* the weight nx.dag_longest_path reads for edge (u, v): it looks the weight
\* argument up as a key of the edge's attribute dict, data.get(weight, 1); the
\* edges of G carry no attributes and the argument is a lambda, so it is 1
dag_edge_weight(acts, u, v) == 1

\* max(us, key=...): the first element with the greatest length
FirstMax(us) ==
    FoldLeft(LAMBDA best, x : IF x.len > best.len THEN x ELSE best, Head(us), Tail(us))

\* dist[v] = (length, u) for node v, dist holding every node before v
DagDistNode(acts, dist, v, preds) ==
    IF preds = << >> THEN dist @@ (v :> [len |-> 0, prev |-> v])
    ELSE The({ dist @@ (v :> IF maxu.len >= 0 THEN maxu ELSE [len |-> 0, prev |-> v]) :
               maxu \in {FirstMax([i \in 1..Len(preds) |->
                           [len  |-> dist[preds[i]].len + dag_edge_weight(acts, preds[i], v),
                            prev |-> preds[i]]])} })

DagDist(es, acts, order) ==
    FoldLeft(LAMBDA dist, v : DagDistNode(acts, dist, v, Predecessors(es, v)),
             << >>, order)

\* path.append(v); u = v; v = dist[v][1], until u = v; then reversed
RECURSIVE WalkBack(_, _, _)
WalkBack(dist, v, path) ==
    IF dist[v].prev = v THEN <<v>> \o path
    ELSE The({ WalkBack(dist, u, p2) : u \in {dist[v].prev}, p2 \in {<<v>> \o path} })

\* nx.dag_longest_path(G, weight=...) on an acyclic G, as a node path
dag_longest_path(es, acts, order) ==
    IF order = << >> THEN << >>
    ELSE The({ WalkBack(dist,
                        FirstMax([i \in 1..Len(order) |->
                                   [len |-> dist[order[i]].len, prev |-> order[i]]]).prev,
                        << >>) :
               dist \in {DagDist(es, acts, order)} })

LongestPathResult(acts, critical_edges) ==
    IF \E i \in 1..Len(critical_edges) :
          EdgeKey(critical_edges[i][1], critical_edges[i][2]) \notin DOMAIN acts
    THEN Raised("KeyError")
    ELSE Returned(critical_edges, SumE(acts, critical_edges))

StartEndCheck(es, acts, start_nodes, end_nodes, topo) ==
    IF start_nodes = << >> \/ end_nodes = << >> THEN Raised("ValueError")
    ELSE IF ~has_path(es, start_nodes[1], end_nodes[1]) THEN Raised("ValueError")
    ELSE IF ~topo.feasible THEN Raised("NetworkXUnfeasible")
    ELSE The({ LongestPathResult(acts, critical_edges) :
               critical_edges \in {PathEdges(dag_longest_path(es, acts, topo.order))} })

find_critical_path_GUI(ns, es, acts) ==
    The({ StartEndCheck(es, acts, start_nodes, end_nodes, topo) :
          start_nodes \in {SelectSeq(ns, LAMBDA n : in_degree(es, n) = 0)},
          end_nodes   \in {SelectSeq(ns, LAMBDA n : out_degree(es, n) = 0)},
          topo        \in {topological_sort(ns, es)} })

\* a find_critical_path whose answer depends on what ran before it
find_critical_path_unstable(host, ns, es, acts) ==
    The({ IF last.op = "add" THEN r
          ELSE [r EXCEPT !.critical_path = Reverse(r.critical_path)] :
          r \in {IF host = "GUI" THEN find_critical_path_GUI(ns, es, acts)
                 ELSE find_critical_path_CLI(ns, es, acts)} })

find_critical_path(host, ns, es, acts) ==
    IF host = "GUI" THEN find_critical_path_GUI(ns, es, acts)
    ELSE find_critical_path_CLI(ns, es, acts)

\* ------------------------------------------------------------ the Z-score
\* floor(sqrt(n)) for n >= 0
RECURSIVE ISqrtBetween(_, _, _)
ISqrtBetween(n, lo, hi) ==
    IF lo = hi THEN lo
    ELSE The({ IF mid * mid <= n
               THEN The({ ISqrtBetween(n, mid, h) : h \in {hi} })
               ELSE The({ ISqrtBetween(n, l, h) : l \in {lo}, h \in {mid - 1} }) :
               mid \in {(lo + hi + 1) \div 2} })

ISqrt(n) == The({ ISqrtBetween(m, 0, IF m < 40000 THEN m ELSE 40000) : m \in {n} })

\* floor(a / sqrt(s)) for an integer a and an integer s > 0
FloorOverSqrt(a, s) ==
    IF a >= 0 THEN ISqrt((a * a) \div s)
    ELSE 0 - (ISqrt(((a * a + s - 1) \div s) - 1) + 1)

\* six times total_std_dev, squared: the sum over the critical path of (P - O)^2
SumVariance36(acts, cp) ==
    FoldLeft(LAMBDA sum, e :
                 The({ sum + (IF k \in DOMAIN acts THEN acts[k].V6 * acts[k].V6 ELSE 0) :
                       k \in {EdgeKey(e[1], e[2])} }),
             0, cp)

\* a Z-score with the difference taken the other way round
ZReversed100(T, Dur, s36) == FloorOverSqrt(600 * (Dur - T), s36)

\* 100 * (math.floor(Z * 100) / 100) with Z = (T - D) / (sqrt(s36) / 6)
ZFloor100(T, Dur, s36) == FloorOverSqrt(600 * (T - Dur), s36)

\* 100 * round(Z, 2): the nearest hundredth, an exact half going to the even one
NearestOfHalves(a, s36, n2) ==
    IF n2 * n2 * s36 = a * a /\ n2 % 2 = 1 /\ ((n2 + 1) \div 2) % 2 = 1
    THEN ((n2 + 1) \div 2) - 1
    ELSE (n2 + 1) \div 2

ZRound100(T, Dur, s36) ==
    The({ The({ NearestOfHalves(a, s36, n2) : n2 \in {FloorOverSqrt(a, s36)} }) :
          a \in {1200 * (T - Dur)} })

\* ------------------------------------------- what a handler run left behind
Reports == {"none", "input error", "analysis error", "info", "uncaught"}

\* op: the handler; exc, cp, td: the latest find_critical_path call and what it
\* returned; prob_step: the lines computing total_std_dev and Z were entered;
\* T, s36, outcome, Z100: the target, 36 * variance, the result of those lines
Analysis(op, r, report) ==
    [op |-> op, exc |-> r.exc, cp |-> r.critical_path, td |-> r.total_duration,
     prob_step |-> FALSE, tOk |-> FALSE, T |-> 0, s36 |-> 0,
     outcome |-> "none", Z100 |-> 0, report |-> report]

Probability(op, r, step, tOk, T, s36, outcome, Z100, report) ==
    [op |-> op, exc |-> r.exc, cp |-> r.critical_path, td |-> r.total_duration,
     prob_step |-> step, tOk |-> tOk, T |-> T, s36 |-> s36,
     outcome |-> outcome, Z100 |-> Z100, report |-> report]

\* ------------------------------------------------------------ the inputs
\* activity keys typed by the user: well formed ones over the nodes 1, 2, 3
\* (a chain, parallel paths, two sinks, two sources, a cycle, a self-loop, an
\* arc against the order of the labels) and malformed ones
ActivityTexts ==
    { <<"1", "-", "2">>, <<"2", "-", "3">>, <<"1", "-", "3">>,
      <<"2", "-", "1">>, <<"3", "-", "3">>,
      <<" ", "1", "-", "2", " ">>,
      <<"1", "2">>, <<"1", "-", "2", "-", "3">>, <<"a", "-", "2">>, << >> }

\* the three estimates typed for an activity: (O, M, P)
EstimateTexts ==
    { <<(<<"0">>), (<<"0">>), (<<"0">>)>>,
      <<(<<"1">>), (<<"2">>), (<<"3">>)>>,
      <<(<<"4">>), (<<"4">>), (<<"4">>)>>,
      <<(<<"3">>), (<<"2">>), (<<"1">>)>>,
      <<(<<"1">>), (<<"x">>), (<<"3">>)>> }

\* the desired project duration typed by the user
TargetTexts == { <<"2">>, <<"4">>, <<"5">>, <<"x">> }

\* what the add handlers read from the four texts: strip, split('-'), int()
ParseAdd(activityText, est) ==
    LET activity == Strip(activityText)
        parts    == SplitDash(activity, << >>)
        keyOk    == Len(parts) = 2 /\ IsInt(parts[1]) /\ IsInt(parts[2])
        estOk    == IsInt(est[1]) /\ IsInt(est[2]) /\ IsInt(est[3])
    IN  [done  |-> Lower(activity) = <<"d", "o", "n", "e">>,
         empty |-> activity = << >> \/ \E i \in 1..3 : Strip(est[i]) = << >>,
         keyOk |-> keyOk,
         start |-> IF keyOk THEN IntOf(parts[1]) ELSE 0,
         end   |-> IF keyOk THEN IntOf(parts[2]) ELSE 0,
         key   |-> IF keyOk THEN EdgeKey(IntOf(parts[1]), IntOf(parts[2])) ELSE "",
         estOk |-> estOk,
         O     |-> IF estOk THEN IntOf(est[1]) ELSE 0,
         M     |-> IF estOk THEN IntOf(est[2]) ELSE 0,
         P     |-> IF estOk THEN IntOf(est[3]) ELSE 0]

\* the add attempts of the model, as the handlers parse them
AddInputs == {ParseAdd(a, e) : a \in ActivityTexts, e \in EstimateTexts}

\* int(project duration text)
ParseTarget(text) == [tOk |-> IsInt(text), T |-> IF IsInt(text) THEN IntOf(text) ELSE 0]

TargetInputs == {ParseTarget(t) : t \in TargetTexts}

\* the record stored for an activity
ActivityRecord(o, m, p) ==
    [O |-> o, M |-> m, P |-> p,
     E |-> calculate_expected_time(o, m, p),
     V6 |-> calculate_standard_deviation(o, m, p)]

\* activities[key] = rec
\* a dictionary whose assignment keeps the value a key already has
StoreIfAbsent(acts, key, rec) ==
    [k \in DOMAIN acts \cup {key} |-> IF k \in DOMAIN acts THEN acts[k] ELSE rec]

\* activities[key] = rec
Store(acts, key, rec) ==
    [k \in DOMAIN acts \cup {key} |-> IF k = key THEN rec ELSE acts[k]]

\* the bound of the model: G never holds more than MaxEdges edges
Room(u, v) == HasEdge(edges, u, v) \/ Len(edges) < MaxEdges

NoAdd == [op |-> "none"]

\* an add attempt: whether it stored a record, whether its key had one before,
\* and what the user was shown
AddResult(stored, existed, report) ==
    [op |-> "add", stored |-> stored, existed |-> existed, report |-> report]

Init ==
    /\ variant \in Variants
    /\ nodes = << >>
    /\ edges = << >>
    /\ activities = << >>
    /\ pc = IF variant = "CLI" THEN "input" ELSE "mainloop"
    /\ done_enabled = FALSE
    /\ prob_enabled = FALSE
    /\ critical_path = << >>
    /\ total_duration = 0
    /\ last = NoAdd

\* ------------------------------------------------------------ CLI: one add
\* main(), the input loop, one pass that is not 'done'
CLI_add_activity(in) ==
    LET u == in.start
        v == in.end
    IN  /\ variant = "CLI"
        /\ pc = "input"
        /\ ~in.done
        /\ IF ~in.keyOk
           THEN /\ UNCHANGED <<nodes, edges, activities>>
                /\ last' = AddResult(FALSE, FALSE, "input error")
           ELSE /\ Room(u, v)
                \* G.add_edge runs before the estimates are read
                /\ nodes' = AddEdgeNodes(nodes, u, v)
                /\ edges' = AddEdgeEdges(edges, u, v)
                /\ IF ~in.estOk
                   THEN /\ UNCHANGED activities
                        /\ last' = AddResult(FALSE, in.key \in DOMAIN activities,
                                             "input error")
                   ELSE /\ activities' = Store(activities, in.key,
                                               ActivityRecord(in.O, in.M, in.P))
                        /\ last' = AddResult(TRUE, in.key \in DOMAIN activities, "none")
        /\ UNCHANGED <<variant, pc, done_enabled, prob_enabled, critical_path, total_duration>>

\* main(), 'done' typed: the try block around find_critical_path
CLI_done ==
    /\ variant = "CLI"
    /\ pc = "input"
    /\ \E r \in {find_critical_path("CLI", nodes, edges, activities)} :
          IF r.exc = "none"
          THEN /\ critical_path' = r.critical_path
               /\ total_duration' = r.total_duration
               /\ last' = Analysis("analysis", r, "none")
          ELSE /\ UNCHANGED <<critical_path, total_duration>>
               /\ last' = Analysis("analysis", r, "analysis error")
    \* the run goes on to the prompt for the desired duration either way
    /\ pc' = "duration"
    /\ UNCHANGED <<variant, nodes, edges, activities, done_enabled, prob_enabled>>

\* main(), from the prompt for the desired duration to the end
CLI_probability(in) ==
    /\ variant = "CLI"
    /\ pc = "duration"
    /\ \E r \in {[exc |-> last.exc, critical_path |-> critical_path,
                  total_duration |-> total_duration]},
          s36 \in {SumVariance36(activities, critical_path)} :
          last' = IF ~in.tOk
                  THEN Probability("probability", r, FALSE, FALSE, 0, 0,
                                   "ValueError", 0, "uncaught")
                  ELSE IF s36 = 0
                  THEN Probability("probability", r, TRUE, TRUE, in.T, 0,
                                   "ZeroDivisionError", 0, "uncaught")
                  ELSE Probability("probability", r, TRUE, TRUE, in.T, s36,
                                   "estimate", ZFloor100(in.T, total_duration, s36), "none")
    /\ pc' = "exit"
    /\ UNCHANGED <<variant, nodes, edges, activities, done_enabled, prob_enabled,
                   critical_path, total_duration>>

\* ------------------------------------------------------------ GUI handlers
GUI_on_add_activity(in) ==
    LET u   == in.start
        v   == in.end
        had == in.key \in DOMAIN activities
    IN  /\ variant = "GUI"
        /\ IF in.empty \/ ~in.keyOk
           THEN /\ UNCHANGED <<nodes, edges, activities, done_enabled>>
                /\ last' = AddResult(FALSE, FALSE, "input error")
           ELSE IF ~in.estOk \/ ~(in.O <= in.M /\ in.M <= in.P)
           THEN /\ UNCHANGED <<nodes, edges, activities, done_enabled>>
                /\ last' = AddResult(FALSE, had, "input error")
           ELSE /\ Room(u, v)
                /\ activities' = Store(activities, in.key,
                                       ActivityRecord(in.O, in.M, in.P))
                /\ nodes' = AddEdgeNodes(nodes, u, v)
                /\ edges' = AddEdgeEdges(edges, u, v)
                /\ done_enabled' = TRUE
                /\ last' = AddResult(TRUE, had, "none")
        /\ UNCHANGED <<variant, pc, prob_enabled, critical_path, total_duration>>

GUI_on_done ==
    /\ variant = "GUI"
    /\ done_enabled
    /\ \E r \in {find_critical_path("GUI", nodes, edges, activities)} :
          IF r.exc = "none"
          THEN /\ prob_enabled' = TRUE
               /\ last' = Analysis("on_done", r, "none")
          ELSE /\ UNCHANGED prob_enabled
               /\ last' = Analysis("on_done", r, "analysis error")
    /\ UNCHANGED <<variant, nodes, edges, activities, pc, done_enabled,
                   critical_path, total_duration>>

\* what on_calculate_prob does once the duration is an int and the analysis
\* has returned r
CalculateProb(r, T, s36) ==
    IF r.exc = "ValueError"
    \* caught by the handler meant for the duration's ValueError
    THEN Probability("on_calculate_prob", r, FALSE, TRUE, T, 0, "none", 0, "input error")
    ELSE IF r.exc # "none"
    \* not a ValueError: it leaves the handler
    THEN Probability("on_calculate_prob", r, FALSE, TRUE, T, 0, "none", 0, "uncaught")
    ELSE IF s36 = 0
    THEN Probability("on_calculate_prob", r, TRUE, TRUE, T, 0, "info", 0, "info")
    ELSE Probability("on_calculate_prob", r, TRUE, TRUE, T, s36, "estimate",
                     ZRound100(T, r.total_duration, s36), "none")

GUI_on_calculate_prob(in) ==
    /\ variant = "GUI"
    /\ prob_enabled
    /\ IF ~in.tOk
       THEN last' = Probability("on_calculate_prob", Raised("not called"), FALSE, FALSE,
                                0, 0, "ValueError", 0, "input error")
       ELSE \E r \in {find_critical_path("GUI", nodes, edges, activities)} :
               \E s36 \in {SumVariance36(activities, r.critical_path)} :
                  last' = CalculateProb(r, in.T, s36)
    /\ UNCHANGED <<variant, nodes, edges, activities, pc, done_enabled, prob_enabled,
                   critical_path, total_duration>>

\* ------------------------------------------------ Project lpt.py handlers
LPT_on_add_activity(in) ==
    LET u   == in.start
        v   == in.end
        had == in.key \in DOMAIN activities
    IN  /\ variant = "LPT"
        /\ IF in.empty \/ ~in.keyOk
           THEN /\ UNCHANGED <<nodes, edges, activities>>
                /\ last' = AddResult(FALSE, FALSE, "input error")
           ELSE IF ~in.estOk
           THEN /\ UNCHANGED <<nodes, edges, activities>>
                /\ last' = AddResult(FALSE, had, "input error")
           ELSE /\ Room(u, v)
                /\ activities' = Store(activities, in.key,
                                       ActivityRecord(in.O, in.M, in.P))
                /\ nodes' = AddEdgeNodes(nodes, u, v)
                /\ edges' = AddEdgeEdges(edges, u, v)
                /\ last' = AddResult(TRUE, had, "none")
        /\ UNCHANGED <<variant, pc, done_enabled, prob_enabled, critical_path,
                       total_duration>>

\* on_done after find_critical_path has returned r
DoneProbability(r, in, s36) ==
    IF ~in.tOk
    THEN Probability("on_done", r, FALSE, FALSE, 0, 0, "ValueError", 0, "analysis error")
    ELSE IF s36 = 0
    THEN Probability("on_done", r, TRUE, TRUE, in.T, 0, "ZeroDivisionError", 0,
                     "analysis error")
    ELSE Probability("on_done", r, TRUE, TRUE, in.T, s36, "estimate",
                     ZFloor100(in.T, r.total_duration, s36), "none")

LPT_on_done(in) ==
    /\ variant = "LPT"
    /\ \E r \in {find_critical_path("LPT", nodes, edges, activities)} :
          IF r.exc # "none"
          THEN last' = Analysis("on_done", r, "analysis error")
          ELSE \E s36 \in {SumVariance36(activities, r.critical_path)} :
                  last' = DoneProbability(r, in, s36)
    /\ UNCHANGED <<variant, nodes, edges, activities, pc, done_enabled, prob_enabled,
                   critical_path, total_duration>>

Next ==
    \/ \E in \in AddInputs : CLI_add_activity(in)
    \/ CLI_done
    \/ \E in \in TargetInputs : CLI_probability(in)
    \/ \E in \in AddInputs : GUI_on_add_activity(in)
    \/ GUI_on_done
    \/ \E in \in TargetInputs : GUI_on_calculate_prob(in)
    \/ \E in \in AddInputs : LPT_on_add_activity(in)
    \/ \E in \in TargetInputs : LPT_on_done(in)

Spec == Init /\ [][Next]_vars

\* =================================================================== claims
\* ------------------------------------------------- what the claims speak of
EdgeSet == Range(edges)

NodeSet == Range(nodes)

SourceNodes == {n \in NodeSet : \A e \in EdgeSet : e[2] # n}

SinkNodes == {n \in NodeSet : \A e \in EdgeSet : e[1] # n}

\* some arc (u, v) has u reachable from v
HasCycle == \E e \in EdgeSet : e[1] \in Reachable(edges, {e[2]}, {e[2]})

EdgeKeys == {EdgeKey(e[1], e[2]) : e \in EdgeSet}

ValidEstimate(rec) == 0 <= rec.O /\ rec.O <= rec.M /\ rec.M <= rec.P

\* acyclic, one source, one sink, every arc an activity with a valid estimate
ValidNetwork ==
    /\ EdgeSet # {}
    /\ ~HasCycle
    /\ Cardinality(SourceNodes) = 1
    /\ Cardinality(SinkNodes) = 1
    /\ EdgeKeys = DOMAIN activities
    /\ \A k \in DOMAIN activities : ValidEstimate(activities[k])

TheSource == CHOOSE n \in SourceNodes : TRUE

TheSink == CHOOSE n \in SinkNodes : TRUE

\* the greatest E-sum of a path from n to a sink of an acyclic network
RECURSIVE LongestFrom(_)
LongestFrom(n) ==
    IF \A e \in EdgeSet : e[1] # n THEN 0
    ELSE MaxOf({ activities[EdgeKey(n, e[2])].E + LongestFrom(e[2]) :
                 e \in {x \in EdgeSet : x[1] = n} })

\* cp is a chain of stored activities leading from node s to node t
IsChain(cp, s, t) ==
    /\ cp # << >>
    /\ cp[1][1] = s
    /\ cp[Len(cp)][2] = t
    /\ \A i \in 1..Len(cp) : cp[i] \in EdgeSet /\ EdgeKey(cp[i][1], cp[i][2]) \in DOMAIN activities
    /\ \A i \in 1..(Len(cp) - 1) : cp[i][2] = cp[i + 1][1]

AnalysisOps == {"analysis", "on_done", "on_calculate_prob"}

\* the last handler run called find_critical_path on the network as it is now
AnalysisRun == last.op \in AnalysisOps /\ last.exc # "not called"

\* the last handler run was an analysis or a probability step
AfterAnalysis == last.op \in AnalysisOps \cup {"probability"}

AddStep(in) ==
    CLI_add_activity(in) \/ GUI_on_add_activity(in) \/ LPT_on_add_activity(in)

\* C1: on a valid network (acyclic, one source, one sink), whatever the labels,
\* find_critical_path returns as total_duration the greatest E-sum of a path
\* from the source to the sink, and as critical path a path attaining it.
C1_LongestPath ==
    (AnalysisRun /\ ValidNetwork) =>
        /\ last.exc = "none"
        /\ last.td = LongestFrom(TheSource)
        /\ IsChain(last.cp, TheSource, TheSink)
        /\ SumE(activities, last.cp) = LongestFrom(TheSource)

\* C2: on a valid network with at least one activity the critical path returned
\* is a non-empty chain of stored activities from the source to the sink whose
\* E-sum is total_duration; on a single chain it is every activity of the chain.
C2_ChainFromSourceToSink ==
    (AnalysisRun /\ ValidNetwork) =>
        /\ last.exc = "none"
        /\ IsChain(last.cp, TheSource, TheSink)
        /\ SumE(activities, last.cp) = last.td
        /\ (Cardinality(EdgeSet) = Cardinality(NodeSet) - 1 /\
            (\A n \in NodeSet : out_degree(edges, n) <= 1 /\ in_degree(edges, n) <= 1))
              => Len(last.cp) = Len(edges)

\* C3: an add attempt whose estimates violate O <= M <= P is rejected with a
\* validation error and leaves the activities and the edges as they were.
C3_OrderViolationRejected ==
    [][last'.op = "add" =>
         \A in \in AddInputs :
            (in.keyOk /\ in.estOk /\ ~(in.O <= in.M /\ in.M <= in.P) /\ AddStep(in))
               => /\ last'.report = "input error"
                  /\ activities' = activities
                  /\ edges' = edges]_vars

\* C4: insertion is atomic, so at all times the graph's edges are exactly the
\* keys "u-v" that carry an estimate record.
C4_EdgesAreActivities == EdgeKeys = DOMAIN activities

\* C5: find_critical_path on a network with more than one sink fails with a
\* structural error and returns no critical path or total duration.
C5_TwoSinksRejected ==
    (AnalysisRun /\ Cardinality(SinkNodes) > 1) => last.exc # "none"

\* C6: find_critical_path on a network with a directed cycle fails, the host
\* reports an analysis failure, and no critical path, total duration or
\* probability comes out, from the analyse step or from the probability step.
C6_CycleReported ==
    /\ (AnalysisRun /\ HasCycle) => (last.exc # "none" /\ last.report = "analysis error")
    /\ (AfterAnalysis /\ HasCycle) => last.outcome # "estimate"

\* C7: when every activity on the critical path has O = P, the probability
\* step does not divide by zero and yields a probability (1.0 or 0.0).
C7_ZeroVarianceHandled ==
    (/\ AfterAnalysis
     /\ last.prob_step
     /\ last.exc = "none"
     /\ last.cp # << >>
     /\ SumVariance36(activities, last.cp) = 0)
        => last.outcome = "estimate"

\* C8: after a failed critical-path analysis the probability / Z-score step is
\* not executed.
C8_NoProbabilityAfterFailure ==
    (AfterAnalysis /\ last.prob_step) => last.exc = "none"

\* C9: an add attempt whose start node equals its end node is rejected with a
\* validation error, and no edge or activity record is inserted for it.
C9_SelfLoopRejected ==
    [][last'.op = "add" =>
         \A in \in AddInputs :
            (in.keyOk /\ in.start = in.end /\ AddStep(in))
               => /\ last'.report = "input error"
                  /\ activities' = activities
                  /\ edges' = edges
                  /\ nodes' = nodes]_vars

\* C10: adding an activity for a pair that is already stored overwrites its
\* estimate: the numbers of activities and of edges stay the same, the pair's
\* O, M, P, E are those of this add, every other record is unchanged.
C10_ReAddOverwrites ==
    [][(last'.op = "add" /\ last'.stored) =>
         \A in \in AddInputs :
            (in.keyOk /\ in.estOk /\ in.key \in DOMAIN activities /\ AddStep(in)) =>
               /\ Cardinality(DOMAIN activities') = Cardinality(DOMAIN activities)
               /\ Len(edges') = Len(edges)
               /\ Range(edges') = Range(edges)
               /\ activities'[in.key].O = in.O
               /\ activities'[in.key].M = in.M
               /\ activities'[in.key].P = in.P
               /\ activities'[in.key].E
                     = TruncDiv6(in.O + 4 * in.M + in.P)
               /\ \A k \in DOMAIN activities \ {in.key} :
                     activities'[k] = activities[k]]_vars

\* a re-add has just overwritten a stored pair
C10_Witness == last.op = "add" /\ last.stored /\ last.existed

\* ============================================== the functions, called alone
\* ------------------------------------------------ integers beyond 32 bits
\* Python's int is unbounded and x / 6 is a binary64 float (53-bit
\* significand).  An integer below 2^54 is kept as hi * Limb + lo.
Limb == 2^27

Wide(hi, lo) == [hi |-> hi, lo |-> lo]

WNorm(hi, lo) == [hi |-> hi + (lo \div Limb), lo |-> lo % Limb]

WAdd(a, b) == WNorm(a.hi + b.hi, a.lo + b.lo)

WTimes4(a) == WNorm(4 * a.hi, 4 * a.lo)

WSucc(a) == WNorm(a.hi, a.lo + 1)

WLeq(a, b) == a.hi < b.hi \/ (a.hi = b.hi /\ a.lo <= b.lo)

\* x // 6 and x % 6
WDivMod6(x) ==
    The({ [quot |-> Wide(x.hi \div 6, t \div 6), rem |-> t % 6] :
          t \in {(x.hi % 6) * Limb + x.lo} })

\* int(x / 6) for 0 <= x < 6 * 2^53: x / 6 is the double nearest to the
\* quotient q + r/6 (ties to even), int() drops its fraction.  Doubles are
\* 1/2 apart from 2^51 on and 1 apart from 2^52 on, closer below.
IntOfTrueDiv6(x) ==
    The({ IF d.quot.hi < 2^24 THEN d.quot
          ELSE IF d.quot.hi < 2^25
          THEN (IF d.rem = 5 THEN WSucc(d.quot) ELSE d.quot)
          ELSE (IF d.rem > 3 \/ (d.rem = 3 /\ d.quot.lo % 2 = 1)
                THEN WSucc(d.quot) ELSE d.quot) :
          d \in {WDivMod6(x)} })

\* calculate_expected_time on integers of any size
calculate_expected_time_wide(o, m, p) == IntOfTrueDiv6(WAdd(WAdd(o, WTimes4(m)), p))

\* ------------------------------------------------------------ the calls
\* the low part of a time estimate goes up to MaxLow
MaxLow == 5

\* the high parts: none, 2^51 and 2^52
WideHighs == {0, 2^24, 2^25}

WideTimes == {Wide(hi, lo) : hi \in WideHighs, lo \in 0..MaxLow}

UnitInit ==
    /\ variant \in Variants
    /\ nodes = << >>
    /\ edges = << >>
    /\ activities = << >>
    /\ pc = "call"
    /\ done_enabled = FALSE
    /\ prob_enabled = FALSE
    /\ critical_path = << >>
    /\ total_duration = 0
    /\ last = NoAdd

\* calculate_expected_time(o, m, p) is called and its result kept
Call_calculate_expected_time(o, m, p) ==
    /\ pc = "call"
    /\ last' = [op |-> "calculate_expected_time", O |-> o, M |-> m, P |-> p,
                E |-> calculate_expected_time_wide(o, m, p)]
    /\ pc' = "return"
    /\ UNCHANGED <<variant, nodes, edges, activities, done_enabled, prob_enabled,
                   critical_path, total_duration>>

\* the lines that turn a target T, total_duration and the critical path's
\* summed squared spreads into a Z-score: floor in ProjectCLI.py and
\* Project lpt.py, round in ProjectGUI.py; no Z-score when the spread is 0
estimate_completion(host, T, td, s36) ==
    IF s36 = 0
    THEN [outcome |-> IF host = "GUI" THEN "info" ELSE "ZeroDivisionError", Z100 |-> 0]
    ELSE [outcome |-> "estimate",
          Z100 |-> IF host = "GUI" THEN ZRound100(T, td, s36) ELSE ZFloor100(T, td, s36)]

\* targets 0..MaxTarget, total durations 0..MaxDuration, and a critical path
\* of two activities with P - O in 0..MaxSpread each
MaxTarget == 8

MaxDuration == 6

MaxSpread == 2

PathVariances36 == {a * a + b * b : a \in 0..MaxSpread, b \in 0..MaxSpread}

\* the probability lines run once for a target T
Call_estimate_completion(T, td, s36) ==
    /\ pc = "call"
    /\ \E e \in {estimate_completion(variant, T, td, s36)} :
          last' = [op |-> "estimate_completion", T |-> T, td |-> td, s36 |-> s36,
                   outcome |-> e.outcome, Z100 |-> e.Z100]
    /\ pc' = "return"
    /\ UNCHANGED <<variant, nodes, edges, activities, done_enabled, prob_enabled,
                   critical_path, total_duration>>

UnitNext ==
    \/ \E o \in WideTimes, m \in WideTimes, p \in WideTimes :
          Call_calculate_expected_time(o, m, p)
    \/ \E T \in 0..MaxTarget, td \in 0..MaxDuration, s36 \in PathVariances36 :
          Call_estimate_completion(T, td, s36)

UnitSpec == UnitInit /\ [][UnitNext]_vars

\* on integers that fit the model's plain integers both definitions agree
ExpectedTimeAgrees ==
    (last.op = "calculate_expected_time" /\ last.O.hi = 0 /\ last.M.hi = 0 /\ last.P.hi = 0)
        => last.E = Wide(0, calculate_expected_time(last.O.lo, last.M.lo, last.P.lo))

\* C11: for integers 0 <= O <= M <= P, calculate_expected_time(O, M, P) is
\* floor((O + 4M + P) / 6) and lies between O and P.
C11_ExpectedTimeIsFloor ==
    (/\ last.op = "calculate_expected_time"
     /\ WLeq(last.O, last.M)
     /\ WLeq(last.M, last.P))
        => /\ last.E = WDivMod6(WAdd(WAdd(last.O, WTimes4(last.M)), last.P)).quot
           /\ WLeq(last.O, last.E)
           /\ WLeq(last.E, last.P)

\* C12: for a fixed total_duration and critical path, a target T1 <= T2 gets a
\* reported Z-score no greater than that of T2 (the probability shown is
\* norm.cdf of the reported Z-score, a nondecreasing function of it).
C12_MonotonicInTarget ==
    (last.op = "estimate_completion" /\ last.outcome = "estimate") =>
        \A T2 \in 0..MaxTarget :
            last.T <= T2 =>
                LET e2 == estimate_completion(variant, T2, last.td, last.s36)
                IN  e2.outcome = "estimate" /\ last.Z100 <= e2.Z100

\* a target below total_duration got a negative Z-score that two decimals do
\* not hold exactly, and a greater target exists
C12_Witness ==
    /\ last.op = "estimate_completion"
    /\ last.outcome = "estimate"
    /\ last.T < last.td
    /\ last.T < MaxTarget
    /\ last.Z100 * last.Z100 * last.s36 # (600 * (last.T - last.td)) * (600 * (last.T - last.td))

RECURSIVE LongestTo(_)
LongestTo(n) ==
    IF \A e \in EdgeSet : e[2] # n THEN 0
    ELSE MaxOf({ LongestTo(e[1]) + activities[EdgeKey(e[1], n)].E :
                 e \in {x \in EdgeSet : x[2] = n} })

\* EST and EFT as the forward loop of find_critical_path leaves them
ForwardTimes == ForwardPass(edges, activities, topological_sort(nodes, edges))

\* C14: on a valid network the forward pass of find_critical_path
\* (ProjectCLI.py, Project lpt.py) gives the start node EST 0 and every other
\* node n the EFT max over its incoming activities (p, n) of the time of p
\* plus E(p, n), so that the EFT of the sink is the total_duration returned.
C14_ForwardPassIsLongest ==
    (AnalysisRun /\ variant # "GUI" /\ ValidNetwork) =>
        /\ ForwardTimes.exc = "none"
        /\ ForwardTimes.EST[TheSource] = 0
        /\ \A n \in NodeSet : ForwardTimes.EFT[n] = LongestTo(n)
        /\ ForwardTimes.EFT[TheSink] = last.td

\* n * sqrt(s) <= a, for integers n, a and s > 0
LeqTimesSqrt(n, a, s) ==
    IF n >= 0
    THEN a >= 0 /\ n * n * s <= a * a
    ELSE a >= 0 \/ n * n * s >= a * a

\* n = floor(100 * Z) for Z = (T - td) / (sqrt(s36) / 6)
IsFloorOfZ100(n, T, td, s36) ==
    /\ LeqTimesSqrt(n, 600 * (T - td), s36)
    /\ ~LeqTimesSqrt(n + 1, 600 * (T - td), s36)

EstimateOps == {"probability", "on_calculate_prob", "on_done", "estimate_completion"}

\* C15: in every host the reported Z-score is (T - total_duration) /
\* total_std_dev cut to two decimals toward minus infinity: floor(100 Z) / 100.
C15_ZIsFloored ==
    (last.op \in EstimateOps /\ last.outcome = "estimate") =>
        IsFloorOfZ100(last.Z100, last.T, last.td, last.s36)

====
